---- MODULE Spec2Model ----
(***************************************************************************)
(* Shoot_Manager: the record store (server/storage.ts) behind the REST     *)
(* routes (server/routes.ts).  The persisted document data.json holds two  *)
(* arrays, shoots (Pending) and editedShoots (Edited).  Every store        *)
(* function reads the whole document, mutates it in memory and writes the  *)
(* whole document back.                                                    *)
(***************************************************************************)
EXTENDS Integers, Sequences, FiniteSets, TLC

\* ------------------------------------------------------------------ bounds
MaxIds == 3        \* randomUUID() is drawn at most this many times
MaxClock == 1      \* the millisecond clock advances at most this far
MaxShoots == 3     \* computeMonthlyStats is given at most this many shoots

\* ------------------------------------------------------- JavaScript values
\* A JSON/JavaScript value of a request body or of a stored price:
\* k is the type tag, s the string payload, n the numeric payload.
Undef == [k |-> "undef", s |-> "", n |-> 0]
JsNull == [k |-> "null", s |-> "", n |-> 0]
NaN == [k |-> "NaN", s |-> "", n |-> 0]
Str(s) == [k |-> "str", s |-> s, n |-> 0]
Num(n) == [k |-> "num", s |-> "", n |-> n]

\* !v of JavaScript
Falsy(v) ==
    \/ v.k \in {"undef", "null", "NaN"}
    \/ v.k = "str" /\ v.s = ""
    \/ v.k = "num" /\ v.n = 0

\* v == null of JavaScript (loose equality: null and undefined only)
LooseNull(v) == v.k \in {"undef", "null"}

\* Number(v) of JavaScript, on the strings the requests of this model carry
Number(v) ==
    CASE v.k = "num" -> v
      [] v.k = "null" -> Num(0)
      [] v.k = "str" /\ v.s = "" -> Num(0)
      [] v.k = "str" /\ v.s = "50" -> Num(50)
      [] OTHER -> NaN

\* JSON.stringify followed by JSON.parse of a number: NaN becomes null
JsonNumber(v) == IF v.k = "NaN" THEN JsNull ELSE v

\* ---------------------------------------------------------------- inputs
\* req.body of POST /api/shoots and of the two PUT routes: complete bodies
\* (a numeric price, a numeric string, a non-numeric string) and bodies with
\* a field missing or empty
Body(modelName, salonName, date, price) ==
    [modelName |-> modelName, salonName |-> salonName, date |-> date, price |-> price]

Bodies ==
    {Body(Str("Ava"), Str("Luxe"), Str("2024-01-10"), Num(100)),
     Body(Str("Bea"), Str("Luxe"), Str("2024-03-01"), Str("50")),
     Body(Str("Ava"), Str("Luxe"), Str("2024-01-20"), Str("abc")),
     Body(Undef, Str("Luxe"), Str("2024-01-10"), Num(100)),
     Body(Str("Ava"), Str(""), Str("2024-01-10"), Num(100)),
     Body(Str("Ava"), Str("Luxe"), Undef, Num(100)),
     Body(Str("Ava"), Str("Luxe"), Str("2024-01-10"), Undef)}

\* req.params.id: an id minted so far, or 0, an id never minted
NoSuchId == 0

VARIABLES
    file,      \* data.json: state "missing" | "ok" | "corrupt", doc its parsed content
    uuids,     \* number of randomUUID() draws so far
    clock,     \* the value new Date() reads, in milliseconds
    last,      \* the last request (op, id, the form it stored) and its response
    writeLog,  \* the documents given to writeData by the last request, in order
    ledger,    \* per minted id: the logical booking it stands for and its fate
    wpc,       \* per concurrent createShoot call: "idle", "held" (read, not yet written), "done"
    wmem,      \* per concurrent createShoot call: the file it read and what it composed
    tz,        \* the sign of the stats screen's offset from UTC
    statsIn,   \* the shoots handed to computeMonthlyStats
    statsOut,  \* what the stats screen computed from them, once it has rendered
    cache      \* the client's query cache: per query key the data and whether it is invalidated

storeVars == <<file, uuids, clock, last, writeLog, ledger>>
callVars == <<wpc, wmem>>
statsVars == <<tz, statsIn, statsOut, cache>>
vars == <<file, uuids, clock, last, writeLog, ledger, wpc, wmem, tz, statsIn, statsOut, cache>>

\* ------------------------------------------------------------ storage.ts
EmptyStore == [shoots |-> <<>>, editedShoots |-> <<>>]


\* readData falling back to sample data instead of the empty store
readData_SampleData(f) ==
    IF f.state = "ok" THEN f.doc
    ELSE [shoots |-> <<[id |-> 0, modelName |-> Str("Sample"), salonName |-> Str("Sample"),
                        date |-> Str("2024-01-10"), price |-> Num(0),
                        createdAt |-> 0, updatedAt |-> 0]>>,
          editedShoots |-> <<>>]

readData(f) == IF f.state = "ok" THEN f.doc ELSE EmptyStore

\* JSON.stringify(data) as JSON.parse reads it back
JsonShoot(r) == [r EXCEPT !.price = JsonNumber(@)]
JsonData(data) ==
    [shoots |-> [i \in 1..Len(data.shoots) |-> JsonShoot(data.shoots[i])],
     editedShoots |-> [i \in 1..Len(data.editedShoots) |-> JsonShoot(data.editedShoots[i])]]

\* fs.writeFileSync opens the file with flag "w" (truncate) and then writes:
\* it succeeds ("ok"), throws before the file is opened ("eopen": the file
\* is as it was) or throws after the truncation ("partial": the file no
\* longer parses).
WriteOutcomes == {"ok", "eopen", "partial"}

writeData(f, data, w) ==
    CASE w = "ok" -> [state |-> "ok", doc |-> JsonData(data)]
      [] w = "eopen" -> f
      [] OTHER -> [state |-> "corrupt", doc |-> EmptyStore]

\* arr.findIndex((s) => s.id === id), 1-based; 0 stands for -1
findIndex(arr, id) ==
    IF \E i \in 1..Len(arr) : arr[i].id = id
    THEN CHOOSE i \in 1..Len(arr) :
            arr[i].id = id /\ \A j \in 1..(i - 1) : arr[j].id # id
    ELSE 0

\* arr.splice(idx, 1)
splice(arr, idx) == SubSeq(arr, 1, idx - 1) \o SubSeq(arr, idx + 1, Len(arr))

\* The outcome of a store function: ret is the returned record (<<>> for
\* null, undefined and for the boolean results), found the truth of the
\* result, data the in-memory document at return and writes the documents
\* handed to writeData.
NotFound(data) == [found |-> FALSE, ret |-> <<>>, data |-> data, writes |-> <<>>]

getShoots(f) == readData(f).shoots

getShootById(f, id) ==
    LET arr == readData(f).shoots
        idx == findIndex(arr, id)
    IN  IF idx = 0 THEN <<>> ELSE <<arr[idx]>>


\* createShoot numbering the shoots by position instead of drawing a UUID
createShoot_PositionalId(f, form, uuid, now) ==
    LET data == readData(f)
        shoot == [id |-> Len(data.shoots) + 1,
                  modelName |-> form.modelName, salonName |-> form.salonName,
                  date |-> form.date, price |-> form.price,
                  createdAt |-> now, updatedAt |-> now]
        next == [data EXCEPT !.shoots = Append(@, shoot)]
    IN  [found |-> TRUE, ret |-> <<shoot>>, data |-> next, writes |-> <<next>>]


\* createShoot reading the clock a second time for updatedAt
createShoot_TwoClocks(f, form, uuid, now) ==
    LET data == readData(f)
        shoot == [id |-> uuid,
                  modelName |-> form.modelName, salonName |-> form.salonName,
                  date |-> form.date, price |-> form.price,
                  createdAt |-> now, updatedAt |-> now + 1]
        next == [data EXCEPT !.shoots = Append(@, shoot)]
    IN  [found |-> TRUE, ret |-> <<shoot>>, data |-> next, writes |-> <<next>>]

\* createShoot putting the new Shoot at the front (unshift for push)
createShoot_Unshift(f, form, uuid, now) ==
    LET data == readData(f)
        shoot == [id |-> uuid,
                  modelName |-> form.modelName, salonName |-> form.salonName,
                  date |-> form.date, price |-> form.price,
                  createdAt |-> now, updatedAt |-> now]
        next == [data EXCEPT !.shoots = <<shoot>> \o @]
    IN  [found |-> TRUE, ret |-> <<shoot>>, data |-> next, writes |-> <<next>>]

createShoot(f, form, uuid, now) ==
    LET data == readData(f)
        shoot == [id |-> uuid,
                  modelName |-> form.modelName, salonName |-> form.salonName,
                  date |-> form.date, price |-> form.price,
                  createdAt |-> now, updatedAt |-> now]
        next == [data EXCEPT !.shoots = Append(@, shoot)]
    IN  [found |-> TRUE, ret |-> <<shoot>>, data |-> next, writes |-> <<next>>]


\* updateShoot that does not refresh updatedAt
updateShoot_StaleUpdatedAt(f, id, form, now) ==
    LET data == readData(f)
        idx == findIndex(data.shoots, id)
        shoot == [data.shoots[idx] EXCEPT
                    !.modelName = form.modelName, !.salonName = form.salonName,
                    !.date = form.date, !.price = form.price]
        next == [data EXCEPT !.shoots[idx] = shoot]
    IN  IF idx = 0 THEN NotFound(data)
        ELSE [found |-> TRUE, ret |-> <<shoot>>, data |-> next, writes |-> <<next>>]

updateShoot(f, id, form, now) ==
    LET data == readData(f)
        idx == findIndex(data.shoots, id)
        shoot == [data.shoots[idx] EXCEPT
                    !.modelName = form.modelName, !.salonName = form.salonName,
                    !.date = form.date, !.price = form.price,
                    !.updatedAt = now]
        next == [data EXCEPT !.shoots[idx] = shoot]
    IN  IF idx = 0 THEN NotFound(data)
        ELSE [found |-> TRUE, ret |-> <<shoot>>, data |-> next, writes |-> <<next>>]


\* deleteShoot without the idx === -1 guard: splice(-1, 1) drops the last Shoot
deleteShoot_NoGuard(f, id) ==
    LET data == readData(f)
        idx == findIndex(data.shoots, id)
        at == IF idx = 0 THEN Len(data.shoots) ELSE idx
        next == [data EXCEPT !.shoots = splice(@, at)]
    IN  [found |-> TRUE, ret |-> <<>>, data |-> next, writes |-> <<next>>]

deleteShoot(f, id) ==
    LET data == readData(f)
        idx == findIndex(data.shoots, id)
        next == [data EXCEPT !.shoots = splice(@, idx)]
    IN  IF idx = 0 THEN NotFound(data)
        ELSE [found |-> TRUE, ret |-> <<>>, data |-> next, writes |-> <<next>>]


\* moveShootToEdited without the splice: the Shoot stays in Pending
moveShootToEdited_NoSplice(f, id, uuid, now) ==
    LET data == readData(f)
        idx == findIndex(data.shoots, id)
        shoot == data.shoots[idx]
        editedShoot == [id |-> uuid, originalShootId |-> shoot.id,
                        modelName |-> shoot.modelName, salonName |-> shoot.salonName,
                        date |-> shoot.date, price |-> shoot.price,
                        createdAt |-> shoot.createdAt, editedAt |-> now]
        next == [shoots |-> data.shoots,
                 editedShoots |-> Append(data.editedShoots, editedShoot)]
    IN  IF idx = 0 THEN NotFound(data)
        ELSE [found |-> TRUE, ret |-> <<editedShoot>>, data |-> next, writes |-> <<next>>]

\* moveShootToEdited stamping createdAt anew instead of carrying it over
moveShootToEdited_NewCreatedAt(f, id, uuid, now) ==
    LET data == readData(f)
        idx == findIndex(data.shoots, id)
        shoot == data.shoots[idx]
        editedShoot == [id |-> uuid, originalShootId |-> shoot.id,
                        modelName |-> shoot.modelName, salonName |-> shoot.salonName,
                        date |-> shoot.date, price |-> shoot.price,
                        createdAt |-> now + 1, editedAt |-> now]
        next == [shoots |-> splice(data.shoots, idx),
                 editedShoots |-> Append(data.editedShoots, editedShoot)]
    IN  IF idx = 0 THEN NotFound(data)
        ELSE [found |-> TRUE, ret |-> <<editedShoot>>, data |-> next, writes |-> <<next>>]


\* moveShootToEdited writing the removal and the insertion separately
moveShootToEdited_TwoWrites(f, id, uuid, now) ==
    LET data == readData(f)
        idx == findIndex(data.shoots, id)
        shoot == data.shoots[idx]
        editedShoot == [id |-> uuid, originalShootId |-> shoot.id,
                        modelName |-> shoot.modelName, salonName |-> shoot.salonName,
                        date |-> shoot.date, price |-> shoot.price,
                        createdAt |-> shoot.createdAt, editedAt |-> now]
        removed == [data EXCEPT !.shoots = splice(@, idx)]
        next == [removed EXCEPT !.editedShoots = Append(@, editedShoot)]
    IN  IF idx = 0 THEN NotFound(data)
        ELSE [found |-> TRUE, ret |-> <<editedShoot>>, data |-> next,
              writes |-> <<removed, next>>]

\* moveShootToEdited carrying the Shoot's updatedAt over as editedAt
moveShootToEdited_StaleEditedAt(f, id, uuid, now) ==
    LET data == readData(f)
        idx == findIndex(data.shoots, id)
        shoot == data.shoots[idx]
        editedShoot == [id |-> uuid, originalShootId |-> shoot.id,
                        modelName |-> shoot.modelName, salonName |-> shoot.salonName,
                        date |-> shoot.date, price |-> shoot.price,
                        createdAt |-> shoot.createdAt, editedAt |-> shoot.updatedAt]
        next == [shoots |-> splice(data.shoots, idx),
                 editedShoots |-> Append(data.editedShoots, editedShoot)]
    IN  IF idx = 0 THEN NotFound(data)
        ELSE [found |-> TRUE, ret |-> <<editedShoot>>, data |-> next, writes |-> <<next>>]

moveShootToEdited(f, id, uuid, now) ==
    LET data == readData(f)
        idx == findIndex(data.shoots, id)
        shoot == data.shoots[idx]
        editedShoot == [id |-> uuid, originalShootId |-> shoot.id,
                        modelName |-> shoot.modelName, salonName |-> shoot.salonName,
                        date |-> shoot.date, price |-> shoot.price,
                        createdAt |-> shoot.createdAt, editedAt |-> now]
        next == [shoots |-> splice(data.shoots, idx),
                 editedShoots |-> Append(data.editedShoots, editedShoot)]
    IN  IF idx = 0 THEN NotFound(data)
        ELSE [found |-> TRUE, ret |-> <<editedShoot>>, data |-> next, writes |-> <<next>>]

getEditedShoots(f) == readData(f).editedShoots

getEditedShootById(f, id) ==
    LET arr == readData(f).editedShoots
        idx == findIndex(arr, id)
    IN  IF idx = 0 THEN <<>> ELSE <<arr[idx]>>

\* updateEditedShoot rebuilding the record and pointing it at itself
updateEditedShoot_Relink(f, id, form, now) ==
    LET data == readData(f)
        idx == findIndex(data.editedShoots, id)
        edited == [data.editedShoots[idx] EXCEPT
                     !.modelName = form.modelName, !.salonName = form.salonName,
                     !.date = form.date, !.price = form.price,
                     !.originalShootId = id, !.editedAt = now]
        next == [data EXCEPT !.editedShoots[idx] = edited]
    IN  IF idx = 0 THEN NotFound(data)
        ELSE [found |-> TRUE, ret |-> <<edited>>, data |-> next, writes |-> <<next>>]

updateEditedShoot(f, id, form, now) ==
    LET data == readData(f)
        idx == findIndex(data.editedShoots, id)
        edited == [data.editedShoots[idx] EXCEPT
                     !.modelName = form.modelName, !.salonName = form.salonName,
                     !.date = form.date, !.price = form.price,
                     !.editedAt = now]
        next == [data EXCEPT !.editedShoots[idx] = edited]
    IN  IF idx = 0 THEN NotFound(data)
        ELSE [found |-> TRUE, ret |-> <<edited>>, data |-> next, writes |-> <<next>>]


\* moveEditedShootBack restoring the Shoot's original id
moveEditedShootBack_OriginalId(f, id, uuid, now) ==
    LET data == readData(f)
        idx == findIndex(data.editedShoots, id)
        edited == data.editedShoots[idx]
        shoot == [id |-> edited.originalShootId,
                  modelName |-> edited.modelName, salonName |-> edited.salonName,
                  date |-> edited.date, price |-> edited.price,
                  createdAt |-> edited.createdAt, updatedAt |-> now]
        next == [shoots |-> Append(data.shoots, shoot),
                 editedShoots |-> splice(data.editedShoots, idx)]
    IN  IF idx = 0 THEN NotFound(data)
        ELSE [found |-> TRUE, ret |-> <<shoot>>, data |-> next, writes |-> <<next>>]

\* moveEditedShootBack with the two timestamps the wrong way round
moveEditedShootBack_SwappedStamps(f, id, uuid, now) ==
    LET data == readData(f)
        idx == findIndex(data.editedShoots, id)
        edited == data.editedShoots[idx]
        shoot == [id |-> uuid,
                  modelName |-> edited.modelName, salonName |-> edited.salonName,
                  date |-> edited.date, price |-> edited.price,
                  createdAt |-> now, updatedAt |-> edited.createdAt]
        next == [shoots |-> Append(data.shoots, shoot),
                 editedShoots |-> splice(data.editedShoots, idx)]
    IN  IF idx = 0 THEN NotFound(data)
        ELSE [found |-> TRUE, ret |-> <<shoot>>, data |-> next, writes |-> <<next>>]

moveEditedShootBack(f, id, uuid, now) ==
    LET data == readData(f)
        idx == findIndex(data.editedShoots, id)
        edited == data.editedShoots[idx]
        shoot == [id |-> uuid,
                  modelName |-> edited.modelName, salonName |-> edited.salonName,
                  date |-> edited.date, price |-> edited.price,
                  createdAt |-> edited.createdAt, updatedAt |-> now]
        next == [shoots |-> Append(data.shoots, shoot),
                 editedShoots |-> splice(data.editedShoots, idx)]
    IN  IF idx = 0 THEN NotFound(data)
        ELSE [found |-> TRUE, ret |-> <<shoot>>, data |-> next, writes |-> <<next>>]

\* deleteEditedShoot looking for the id in either bucket
deleteEditedShoot_EitherBucket(f, id) ==
    LET data == readData(f)
        next == [shoots |-> SelectSeq(data.shoots, LAMBDA r : r.id # id),
                 editedShoots |-> SelectSeq(data.editedShoots, LAMBDA r : r.id # id)]
    IN  IF next = data THEN NotFound(data)
        ELSE [found |-> TRUE, ret |-> <<>>, data |-> next, writes |-> <<next>>]

deleteEditedShoot(f, id) ==
    LET data == readData(f)
        idx == findIndex(data.editedShoots, id)
        next == [data EXCEPT !.editedShoots = splice(@, idx)]
    IN  IF idx = 0 THEN NotFound(data)
        ELSE [found |-> TRUE, ret |-> <<>>, data |-> next, writes |-> <<next>>]

\* ------------------------------------------------------------- routes.ts
\* if (!modelName || !salonName || !date || price == null) return 400
Invalid(body) ==
    \/ Falsy(body.modelName)
    \/ Falsy(body.salonName)
    \/ Falsy(body.date)
    \/ LooseNull(body.price)

\* { modelName, salonName, date, price: Number(price) }
FormOf(body) ==
    [modelName |-> body.modelName, salonName |-> body.salonName,
     date |-> body.date, price |-> Number(body.price)]

\* randomUUID(): a version-4 UUID, taken never to repeat
randomUUID == uuids + 1

\* new Date().toISOString(): timestamps in this format order as the clock does
Now == clock

RequestIds == {NoSuchId} \cup (1..uuids)

NoRequest == [op |-> "none", id |-> NoSuchId, form |-> <<>>, status |-> 0, body |-> <<>>]

Reply(op, id, form, status, body) ==
    last' = [op |-> op, id |-> id, form |-> form, status |-> status, body |-> body]

\* res.json(body): the response body as the client parses it
JsonBody(body) == [i \in 1..Len(body) |-> JsonShoot(body[i])]

\* A handler that reaches writeData: the write succeeds and the handler
\* answers with status ok, or writeFileSync throws and Express answers 500.
Commit(r, w, op, id, form, ok) ==
    /\ file' = writeData(file, r.data, w)
    /\ writeLog' = r.writes
    /\ IF w = "ok" THEN Reply(op, id, form, ok, JsonBody(r.ret))
       ELSE Reply(op, id, form, 500, <<>>)

\* A handler that returns without calling writeData
Answer(op, id, form, status, body) ==
    /\ Reply(op, id, form, status, JsonBody(body))
    /\ writeLog' = <<>>
    /\ UNCHANGED file

\* ledger: the booking each minted id stands for
Booking(id) == ledger[id].bk
NewBooking == Cardinality({ledger[i].bk : i \in 1..Len(ledger)} \ {0}) + 1
Minted(bk, born) == Append(ledger, [bk |-> bk, born |-> born, fate |-> "live"])
Voided == Append(ledger, [bk |-> 0, born |-> 0, fate |-> "void"])
Fate(l, id, fate) == [l EXCEPT ![id].fate = fate]

GetApiShoots ==
    /\ Answer("GET /api/shoots", NoSuchId, <<>>, 200, getShoots(file))
    /\ UNCHANGED <<uuids, clock, ledger>>

\* GET /api/shoots/:id without the not-found branch
StatusGetShoot_Always200(f, id) == 200

\* if (!shoot) return res.status(404); else res.json(shoot)
StatusGetShoot(f, id) == IF getShootById(f, id) = <<>> THEN 404 ELSE 200

GetApiShootsId(id) ==
    /\ Answer("GET /api/shoots/:id", id, <<>>, StatusGetShoot(file, id), getShootById(file, id))
    /\ UNCHANGED <<uuids, clock, ledger>>

PostApiShoots(body, w) ==
    IF Invalid(body)
    THEN /\ Answer("POST /api/shoots", NoSuchId, <<>>, 400, <<>>)
         /\ UNCHANGED <<uuids, clock, ledger>>
    ELSE /\ uuids < MaxIds
         /\ LET form == FormOf(body)
                r == createShoot(file, form, randomUUID, Now)
            IN  Commit(r, w, "POST /api/shoots", NoSuchId, <<form>>, 201)
         /\ uuids' = uuids + 1
         /\ ledger' = IF w = "ok" THEN Minted(NewBooking, Now) ELSE Voided
         /\ UNCHANGED clock

PutApiShootsId(id, body, w) ==
    IF Invalid(body)
    THEN /\ Answer("PUT /api/shoots/:id", id, <<>>, 400, <<>>)
         /\ UNCHANGED <<uuids, clock, ledger>>
    ELSE /\ LET form == FormOf(body)
                r == updateShoot(file, id, form, Now)
            IN  IF r.found THEN Commit(r, w, "PUT /api/shoots/:id", id, <<form>>, 200)
                ELSE Answer("PUT /api/shoots/:id", id, <<>>, 404, <<>>)
         /\ UNCHANGED <<uuids, clock, ledger>>

DeleteApiShootsId(id, w) ==
    LET r == deleteShoot(file, id)
    IN  IF r.found
        THEN /\ Commit(r, w, "DELETE /api/shoots/:id", id, <<>>, 200)
             /\ ledger' = IF w = "ok" THEN Fate(ledger, id, "deleted") ELSE ledger
             /\ UNCHANGED <<uuids, clock>>
        ELSE /\ Answer("DELETE /api/shoots/:id", id, <<>>, 404, <<>>)
             /\ UNCHANGED <<uuids, clock, ledger>>

PostMoveToEdited(id, w) ==
    LET r == moveShootToEdited(file, id, randomUUID, Now)
    IN  IF r.found
        THEN /\ uuids < MaxIds
             /\ Commit(r, w, "POST /api/shoots/:id/move-to-edited", id, <<>>, 201)
             /\ uuids' = uuids + 1
             /\ ledger' = IF w = "ok"
                          THEN Fate(Minted(Booking(id), ledger[id].born), id, "moved")
                          ELSE Voided
             /\ UNCHANGED clock
        ELSE /\ Answer("POST /api/shoots/:id/move-to-edited", id, <<>>, 404, <<>>)
             /\ UNCHANGED <<uuids, clock, ledger>>

GetApiEditedShoots ==
    /\ Answer("GET /api/edited-shoots", NoSuchId, <<>>, 200, getEditedShoots(file))
    /\ UNCHANGED <<uuids, clock, ledger>>

PutApiEditedShootsId(id, body, w) ==
    IF Invalid(body)
    THEN /\ Answer("PUT /api/edited-shoots/:id", id, <<>>, 400, <<>>)
         /\ UNCHANGED <<uuids, clock, ledger>>
    ELSE /\ LET form == FormOf(body)
                r == updateEditedShoot(file, id, form, Now)
            IN  IF r.found THEN Commit(r, w, "PUT /api/edited-shoots/:id", id, <<form>>, 200)
                ELSE Answer("PUT /api/edited-shoots/:id", id, <<>>, 404, <<>>)
         /\ UNCHANGED <<uuids, clock, ledger>>

PostMoveBack(id, w) ==
    LET r == moveEditedShootBack(file, id, randomUUID, Now)
    IN  IF r.found
        THEN /\ uuids < MaxIds
             /\ Commit(r, w, "POST /api/edited-shoots/:id/move-back", id, <<>>, 201)
             /\ uuids' = uuids + 1
             /\ ledger' = IF w = "ok"
                          THEN Fate(Minted(Booking(id), ledger[id].born), id, "moved")
                          ELSE Voided
             /\ UNCHANGED clock
        ELSE /\ Answer("POST /api/edited-shoots/:id/move-back", id, <<>>, 404, <<>>)
             /\ UNCHANGED <<uuids, clock, ledger>>

DeleteApiEditedShootsId(id, w) ==
    LET r == deleteEditedShoot(file, id)
    IN  IF r.found
        THEN /\ Commit(r, w, "DELETE /api/edited-shoots/:id", id, <<>>, 200)
             /\ ledger' = IF w = "ok" THEN Fate(ledger, id, "deleted") ELSE ledger
             /\ UNCHANGED <<uuids, clock>>
        ELSE /\ Answer("DELETE /api/edited-shoots/:id", id, <<>>, 404, <<>>)
             /\ UNCHANGED <<uuids, clock, ledger>>

\* getEditedShootById is exported by the store; no route calls it
GetEditedShootById(id) ==
    /\ LET edited == getEditedShootById(file, id)
       IN  IF edited = <<>> THEN Answer("getEditedShootById", id, <<>>, 0, <<>>)
           ELSE Answer("getEditedShootById", id, <<>>, 0, edited)
    /\ UNCHANGED <<uuids, clock, ledger>>

\* a millisecond passes
Tick ==
    /\ clock < MaxClock
    /\ clock' = clock + 1
    /\ UNCHANGED <<file, uuids, last, writeLog, ledger>>

\* two createShoot calls that may be in progress at once
Writers == {1, 2}
NoWork == [base |-> [state |-> "missing", doc |-> EmptyStore], r |-> NotFound(EmptyStore)]
NoStats == [done |-> FALSE, stats |-> <<>>, totalEarnings |-> 0, totalShoots |-> 0]

\* the two lists the screens query, by their query key
QueryKeys == {"/api/shoots", "/api/edited-shoots"}
\* useQuery before its first fetch: no data (shown as []), to be fetched
NoCache == [key \in QueryKeys |-> [data |-> <<>>, stale |-> TRUE]]

InitStore ==
    /\ file = [state |-> "missing", doc |-> EmptyStore]
    /\ uuids = 0
    /\ clock = 0
    /\ last = NoRequest
    /\ writeLog = <<>>
    /\ ledger = <<>>
    /\ wpc = [p \in Writers |-> "idle"]
    /\ wmem = [p \in Writers |-> NoWork]
    /\ cache = NoCache

Init ==
    /\ InitStore
    /\ tz = 0
    /\ statsIn = <<>>
    /\ statsOut = NoStats

Requests(w) ==
    \/ GetApiShoots
    \/ \E id \in RequestIds : GetApiShootsId(id)
    \/ \E body \in Bodies : PostApiShoots(body, w)
    \/ \E id \in RequestIds, body \in Bodies : PutApiShootsId(id, body, w)
    \/ \E id \in RequestIds : DeleteApiShootsId(id, w)
    \/ \E id \in RequestIds : PostMoveToEdited(id, w)
    \/ GetApiEditedShoots
    \/ \E id \in RequestIds, body \in Bodies : PutApiEditedShootsId(id, body, w)
    \/ \E id \in RequestIds : PostMoveBack(id, w)
    \/ \E id \in RequestIds : DeleteApiEditedShootsId(id, w)
    \/ \E id \in RequestIds : GetEditedShootById(id)

\* the file system works: every writeFileSync succeeds
Next == (Requests("ok") \/ Tick) /\ UNCHANGED <<callVars, statsVars>>

Spec == Init /\ [][Next]_vars

\* writeFileSync may throw
NextFault == ((\E w \in WriteOutcomes : Requests(w)) \/ Tick) /\ UNCHANGED <<callVars, statsVars>>

SpecFault == Init /\ [][NextFault]_vars

\* ---------------------------------------------------------------------
\* createShoot as two steps: readData, then writeData of the whole
\* document composed from what was read.

\* a handler that may be suspended between its read and its write
RunToCompletion_Suspends(p) == TRUE

\* One Node process: a handler and the store function it calls are
\* synchronous, so no other handler runs between its read and its write.
RunToCompletion(p) == \A q \in Writers \ {p} : wpc[q] # "held"

\* readData and the composition of the new document, up to writeData
HandlerRead(p, body) ==
    /\ wpc[p] = "idle"
    /\ ~Invalid(body)
    /\ uuids < MaxIds
    /\ wpc' = [wpc EXCEPT ![p] = "held"]
    /\ wmem' = [wmem EXCEPT ![p] = [base |-> file,
                                    r |-> createShoot(file, FormOf(body), randomUUID, Now)]]
    /\ uuids' = uuids + 1
    /\ ledger' = Minted(NewBooking, Now)
    /\ UNCHANGED <<file, clock, last, writeLog>>

\* writeData after a second readData: the write merges into the current file
HandlerWrite_Merge(p) ==
    /\ wpc[p] = "held"
    /\ file' = writeData(file, [readData(file) EXCEPT
                                  !.shoots = Append(@, wmem[p].r.ret[1])], "ok")
    /\ writeLog' = wmem[p].r.writes
    /\ Reply("POST /api/shoots", NoSuchId, <<>>, 201, JsonBody(wmem[p].r.ret))
    /\ wpc' = [wpc EXCEPT ![p] = "done"]
    /\ UNCHANGED <<uuids, clock, ledger, wmem>>

\* writeData(data): the composed document replaces the file; 201 with the shoot
HandlerWrite(p) ==
    /\ wpc[p] = "held"
    /\ file' = writeData(file, wmem[p].r.data, "ok")
    /\ writeLog' = wmem[p].r.writes
    /\ Reply("POST /api/shoots", NoSuchId, <<>>, 201, JsonBody(wmem[p].r.ret))
    /\ wpc' = [wpc EXCEPT ![p] = "done"]
    /\ UNCHANGED <<uuids, clock, ledger, wmem>>

\* Two writers with no mutual exclusion (two server processes on one file)
NextRace ==
    \/ \E p \in Writers, body \in Bodies : HandlerRead(p, body) /\ UNCHANGED statsVars
    \/ \E p \in Writers : HandlerWrite(p) /\ UNCHANGED statsVars
    \/ Tick /\ UNCHANGED <<callVars, statsVars>>

SpecRace == Init /\ [][NextRace]_vars

\* The same two requests inside one Node process
NextLoop ==
    \/ \E p \in Writers, body \in Bodies :
           RunToCompletion(p) /\ HandlerRead(p, body) /\ UNCHANGED statsVars
    \/ \E p \in Writers : HandlerWrite(p) /\ UNCHANGED statsVars
    \/ Tick /\ UNCHANGED <<callVars, statsVars>>

SpecLoop == Init /\ [][NextLoop]_vars

\* ---------------------------------------------------------------------
\* stats.tsx: computeMonthlyStats

MONTHS ==
    <<"January", "February", "March", "April", "May", "June",
      "July", "August", "September", "October", "November", "December">>

\* offsets of the viewer's local time from UTC, in hours
TzHours == {-5, 0, 10}

\* the date strings handed to new Date(): date-only forms are UTC midnight
StatsDates ==
    {"2024-01-10", "2024-01-20", "2024-03-01",
     "2023-12-31T22:00:00.000Z", "2024-01-10T09:00:00.000Z"}

\* new Date(s): the UTC year, month (0-based), day, hour, and that month's length
DateParts(s) ==
    CASE s = "2024-01-10" -> [y |-> 2024, m |-> 0, d |-> 10, h |-> 0, dim |-> 31]
      [] s = "2024-01-20" -> [y |-> 2024, m |-> 0, d |-> 20, h |-> 0, dim |-> 31]
      [] s = "2024-03-01" -> [y |-> 2024, m |-> 2, d |-> 1, h |-> 0, dim |-> 31]
      [] s = "2023-12-31T22:00:00.000Z" -> [y |-> 2023, m |-> 11, d |-> 31, h |-> 22, dim |-> 31]
      [] s = "2024-01-10T09:00:00.000Z" -> [y |-> 2024, m |-> 0, d |-> 10, h |-> 9, dim |-> 31]

\* the local calendar month the instant falls in
LocalMonth(s) ==
    LET u == DateParts(s)
        h == u.h + tz
    IN  IF h < 0 /\ u.d = 1
        THEN IF u.m = 0 THEN [y |-> u.y - 1, m |-> 11] ELSE [y |-> u.y, m |-> u.m - 1]
        ELSE IF h >= 24 /\ u.d = u.dim
        THEN IF u.m = 11 THEN [y |-> u.y + 1, m |-> 0] ELSE [y |-> u.y, m |-> u.m + 1]
        ELSE [y |-> u.y, m |-> u.m]

getFullYear(date) == LocalMonth(date.s).y
getMonth(date) == LocalMonth(date.s).m

\* stat.totalEarnings += shoot.price (null adds 0)
AddPrice(n, price) == IF price.k = "num" THEN n + price.n ELSE n

\* the body of shoots.forEach: map is the Map's values in insertion order
Visit(map, shoot) ==
    LET year == getFullYear(shoot.date)
        monthNumber == getMonth(shoot.date)
        Has(m) == \E i \in 1..Len(m) : m[i].year = year /\ m[i].monthNumber = monthNumber
        map1 == IF Has(map) THEN map
                ELSE Append(map, [month |-> MONTHS[monthNumber + 1], year |-> year,
                                  monthNumber |-> monthNumber,
                                  shootCount |-> 0, totalEarnings |-> 0])
        i == CHOOSE j \in 1..Len(map1) : map1[j].year = year /\ map1[j].monthNumber = monthNumber
    IN  [map1 EXCEPT ![i].shootCount = @ + 1,
                     ![i].totalEarnings = AddPrice(@, shoot.price)]

RECURSIVE forEach(_, _)
forEach(shoots, map) ==
    IF shoots = <<>> THEN map ELSE forEach(Tail(shoots), Visit(map, Head(shoots)))

\* the comparator with the order turned round
Compare_Ascending(a, b) ==
    IF a.year # b.year THEN a.year - b.year ELSE a.monthNumber - b.monthNumber

\* the comparator handed to sort
Compare(a, b) ==
    IF a.year # b.year THEN b.year - a.year ELSE b.monthNumber - a.monthNumber

\* Array.prototype.sort (stable): x goes behind what does not sort after it
Insert(sorted, x) ==
    LET k == Cardinality({i \in 1..Len(sorted) : Compare(sorted[i], x) <= 0})
    IN  SubSeq(sorted, 1, k) \o <<x>> \o SubSeq(sorted, k + 1, Len(sorted))

RECURSIVE sort(_)
sort(arr) ==
    IF arr = <<>> THEN <<>>
    ELSE Insert(sort(SubSeq(arr, 1, Len(arr) - 1)), arr[Len(arr)])

computeMonthlyStats(shoots) == sort(forEach(shoots, <<>>))

\* the shoots the function is given: what it reads of a Shoot is date and price
StatsShoots == {[date |-> Str(d), price |-> Num(n)] : d \in StatsDates, n \in {50, 100}}
StatsInputs == UNION {[1..n -> StatsShoots] : n \in 0..MaxShoots}

InitStats ==
    /\ InitStore
    /\ tz \in TzHours
    /\ statsIn \in StatsInputs
    /\ statsOut = NoStats

\* shoots.reduce((sum, s) => sum + s.price, 0)
RECURSIVE reduce(_, _)
reduce(shoots, sum) ==
    IF shoots = <<>> THEN sum ELSE reduce(Tail(shoots), AddPrice(sum, Head(shoots).price))

\* StatsScreen renders: monthlyStats, totalEarnings and totalShoots of shoots
StatsScreen ==
    /\ ~statsOut.done
    /\ statsOut' = [done |-> TRUE, stats |-> computeMonthlyStats(statsIn),
                    totalEarnings |-> reduce(statsIn, 0),
                    totalShoots |-> Len(statsIn)]
    /\ UNCHANGED <<storeVars, callVars, tz, statsIn, cache>>

NextStats == StatsScreen

SpecStats == InitStats /\ [][NextStats]_vars

\* ---------------------------------------------------------------------
\* the client: the screens' mutations and the query cache

\* apiRequest: a response that is not 2xx rejects, and the mutation fails
ApiOk(status) == status \in 200..299

\* queryClient.invalidateQueries({ queryKey: [key] }) for each key of keys
invalidateQueries(c, keys) ==
    [key \in QueryKeys |-> IF key \in keys THEN [c[key] EXCEPT !.stale = TRUE] ELSE c[key]]

\* useMutation: onSuccess runs only when mutationFn has resolved
onSuccess(keys) ==
    /\ cache' = IF ApiOk(last'.status) THEN invalidateQueries(cache, keys) ELSE cache
    /\ UNCHANGED <<callVars, tz, statsIn, statsOut>>

\* handleSubmit: what the form sends once validate() has passed
ClientBodies ==
    {Body(Str("Ava"), Str("Luxe"), Str("2023-12-31T22:00:00.000Z"), Num(100)),
     Body(Str("Bea"), Str("Luxe"), Str("2024-01-10T09:00:00.000Z"), Num(50))}

\* createMutation invalidating the Edited list instead of the Shoots list
createMutation_WrongKey(body) ==
    /\ PostApiShoots(body, "ok")
    /\ onSuccess({"/api/edited-shoots"})

createMutation(body) ==
    /\ PostApiShoots(body, "ok")
    /\ onSuccess({"/api/shoots"})

updateMutation(id, body, isFromEdited) ==
    /\ IF isFromEdited THEN PutApiEditedShootsId(id, body, "ok")
       ELSE PutApiShootsId(id, body, "ok")
    /\ onSuccess({"/api/shoots", "/api/edited-shoots"})

\* ShootsScreen
deleteMutation(id) ==
    /\ DeleteApiShootsId(id, "ok")
    /\ onSuccess({"/api/shoots"})

moveToEditedMutation(id) ==
    /\ PostMoveToEdited(id, "ok")
    /\ onSuccess({"/api/shoots", "/api/edited-shoots"})

\* EditedScreen
moveBackMutation(id) ==
    /\ PostMoveBack(id, "ok")
    /\ onSuccess({"/api/edited-shoots", "/api/shoots"})

deleteEditedMutation(id) ==
    /\ DeleteApiEditedShootsId(id, "ok")
    /\ onSuccess({"/api/edited-shoots"})

\* the stats screen fed from the Edited list
refetchShoots_FromEdited ==
    /\ cache["/api/shoots"].stale
    /\ GetApiEditedShoots
    /\ cache' = [cache EXCEPT !["/api/shoots"] = [data |-> last'.body, stale |-> FALSE]]
    /\ statsIn' = last'.body
    /\ statsOut' = NoStats
    /\ UNCHANGED <<callVars, tz>>

\* the invalidated query ["/api/shoots"] is fetched again; ShootsScreen and
\* StatsScreen, which use it, get the new data
refetchShoots ==
    /\ cache["/api/shoots"].stale
    /\ GetApiShoots
    /\ cache' = [cache EXCEPT !["/api/shoots"] = [data |-> last'.body, stale |-> FALSE]]
    /\ statsIn' = last'.body
    /\ statsOut' = NoStats
    /\ UNCHANGED <<callVars, tz>>

\* the invalidated query ["/api/edited-shoots"] is fetched again for EditedScreen
refetchEdited ==
    /\ cache["/api/edited-shoots"].stale
    /\ GetApiEditedShoots
    /\ cache' = [cache EXCEPT !["/api/edited-shoots"] = [data |-> last'.body, stale |-> FALSE]]
    /\ UNCHANGED <<callVars, tz, statsIn, statsOut>>

InitClient ==
    /\ InitStore
    /\ tz \in TzHours
    /\ statsIn = <<>>
    /\ statsOut = NoStats

NextClient ==
    \/ \E body \in ClientBodies : createMutation(body)
    \/ \E id \in RequestIds, body \in ClientBodies, isFromEdited \in BOOLEAN :
           updateMutation(id, body, isFromEdited)
    \/ \E id \in RequestIds : deleteMutation(id)
    \/ \E id \in RequestIds : moveToEditedMutation(id)
    \/ \E id \in RequestIds : moveBackMutation(id)
    \/ \E id \in RequestIds : deleteEditedMutation(id)
    \/ refetchShoots
    \/ refetchEdited
    \/ StatsScreen

SpecClient == InitClient /\ [][NextClient]_vars

TypeOK ==
    /\ file.state \in {"missing", "ok", "corrupt"}
    /\ uuids \in 0..MaxIds
    /\ clock \in 0..MaxClock
    /\ Len(ledger) = uuids
    /\ \A p \in Writers : wpc[p] \in {"idle", "held", "done"}
    /\ tz \in TzHours
    /\ Len(statsIn) <= MaxShoots
    /\ statsOut.done \in BOOLEAN
    /\ \A key \in QueryKeys : cache[key].stale \in BOOLEAN

\* ------------------------------------------------------------ the buckets
Pending == readData(file).shoots
Edited == readData(file).editedShoots

MoveToEditedOp == "POST /api/shoots/:id/move-to-edited"
MoveBackOp == "POST /api/edited-shoots/:id/move-back"

\* the records of arr that stand for booking bk
Holding(arr, bk) == {i \in 1..Len(arr) : arr[i].id \in 1..Len(ledger) /\ Booking(arr[i].id) = bk}

CreatedBookings == {ledger[i].bk : i \in 1..Len(ledger)} \ {0}
DeletedBookings == {ledger[i].bk : i \in {j \in 1..Len(ledger) : ledger[j].fate = "deleted"}}

\* arr without the records whose id is id, the others in their order
Without(arr, id) == SelectSeq(arr, LAMBDA r : r.id # id)

SameContent(a, b) ==
    /\ a.modelName = b.modelName
    /\ a.salonName = b.salonName
    /\ a.date = b.date
    /\ a.price = b.price

\* ------------------------------------------------------------------ claims

\* C1: in every state reachable by the store's operations, each logical
\* booking that has been created (and not deleted) is held by exactly one
\* record, in exactly one of the two buckets: never in both, never in neither.
C1_ExactlyOneBucket ==
    \A bk \in CreatedBookings \ DeletedBookings :
        Cardinality(Holding(Pending, bk)) + Cardinality(Holding(Edited, bk)) = 1

\* a booking has been moved to Edited while another one is in Pending
C1_Witness ==
    /\ Len(Pending) >= 1
    /\ \E i \in 1..Len(Edited) : ledger[Edited[i].originalShootId].fate = "moved"

\* C2: a successful moveToEdited(id) removes the record id from Pending and
\* appends exactly one EditedShoot with the Shoot's modelName, salonName,
\* date, price and createdAt; all other records of both buckets are
\* unchanged and GET /api/shoots/:id then answers 404.
C2_MoveToEdited ==
    [][(last'.op = MoveToEditedOp /\ last'.status = 201 /\ clock' = clock) =>
        LET id == last'.id
            shoot == getShootById(file, id)[1]
            edited == Edited'[Len(Edited')]
        IN  /\ Pending' = Without(Pending, id)
            /\ Len(Pending') = Len(Pending) - 1
            /\ Len(Edited') = Len(Edited) + 1
            /\ SubSeq(Edited', 1, Len(Edited)) = Edited
            /\ SameContent(edited, shoot)
            /\ edited.createdAt = shoot.createdAt
            /\ last'.body = <<edited>>
            /\ StatusGetShoot(file', id) = 404]_vars

\* a move to Edited has just succeeded and left another record in Pending
C2_Witness ==
    /\ last.op = MoveToEditedOp
    /\ last.status = 201
    /\ Len(Pending) >= 1
    /\ Len(Edited) >= 1

\* C3: for every Shoot in Pending, moveToEdited followed by moveBackToPending
\* of the resulting EditedShoot yields a Shoot in Pending with the original
\* modelName, salonName, date, price and createdAt and an id different from
\* the original id, and leaves the Edited bucket as it was before the moves.
C3_RoundTrip ==
    \A i \in 1..Len(Pending) : \A t1 \in clock..MaxClock : \A t2 \in t1..MaxClock :
        LET shoot == Pending[i]
            r1 == moveShootToEdited(file, shoot.id, uuids + 1, t1)
            f1 == writeData(file, r1.data, "ok")
            r2 == moveEditedShootBack(f1, r1.ret[1].id, uuids + 2, t2)
            f2 == writeData(f1, r2.data, "ok")
            back == r2.ret[1]
        IN  /\ r1.found /\ r2.found
            /\ getShootById(f2, back.id) = <<JsonShoot(back)>>
            /\ SameContent(back, shoot)
            /\ back.createdAt = shoot.createdAt
            /\ back.id # shoot.id
            /\ getShootById(f2, shoot.id) = <<>>
            /\ readData(f2).editedShoots = Edited

\* a booking has gone to Edited and come back: it has carried three ids
C3_Witness ==
    /\ last.op = MoveBackOp
    /\ last.status = 201
    /\ \E a, b \in 1..Len(ledger) :
          /\ a # b
          /\ ledger[a].fate = "moved" /\ ledger[b].fate = "moved"
          /\ ledger[a].bk = ledger[b].bk
          /\ ledger[a].bk = Booking(last.body[1].id)

\* C4: no two records of Pending share an id and no two records of Edited
\* share an id.
UniqueIds(arr) == \A i, j \in 1..Len(arr) : i # j => arr[i].id # arr[j].id

Abandoned == {i \in 1..Len(ledger) : ledger[i].fate = "moved"}
Carried(arr) == {arr[i].id : i \in 1..Len(arr)}

C5_FreshIdOnMove ==
    /\ (last.op \in {MoveToEditedOp, MoveBackOp} /\ last.status = 201) =>
            last.body[1].id # last.id
    /\ Abandoned \cap (Carried(Pending) \cup Carried(Edited)) = {}

\* an id abandoned by a move to Edited and one abandoned by the move back
C5_Witness ==
    /\ Cardinality(Abandoned) >= 2
    /\ Len(Pending) >= 1

\* C6: every mutating operation composes the next document in memory and
\* hands it to writeData exactly once; a move never writes the removal and
\* the insertion separately, so no document written shows the moved booking
\* in neither bucket or in both.
MutatingOps ==
    {"POST /api/shoots", "PUT /api/shoots/:id", "DELETE /api/shoots/:id",
     MoveToEditedOp, "PUT /api/edited-shoots/:id", MoveBackOp,
     "DELETE /api/edited-shoots/:id"}

Succeeded == last.op \in MutatingOps /\ last.status \in {200, 201}

C6_SingleWrite ==
    /\ Succeeded => (Len(writeLog) = 1 /\ file = [state |-> "ok", doc |-> JsonData(writeLog[1])])
    /\ ~Succeeded => writeLog = <<>>
    /\ \A k \in 1..Len(writeLog) : \A bk \in CreatedBookings \ DeletedBookings :
          Cardinality(Holding(writeLog[k].shoots, bk))
            + Cardinality(Holding(writeLog[k].editedShoots, bk)) = 1

\* a move has written its single document, the moved record in the target bucket
C6_Witness ==
    /\ last.op \in {MoveToEditedOp, MoveBackOp}
    /\ last.status = 201
    /\ Len(writeLog) = 1
    /\ \/ \E i \in 1..Len(writeLog[1].editedShoots) :
             writeLog[1].editedShoots[i].id = last.body[1].id
       \/ \E i \in 1..Len(writeLog[1].shoots) :
             writeLog[1].shoots[i].id = last.body[1].id

\* C7: moveToEdited and moveBackToPending are all-or-nothing: when the move
\* does not succeed (the id is absent, or the write of the document fails)
\* the persisted document is exactly what it was before the operation.
C7_AllOrNothing ==
    [][(last'.op \in {MoveToEditedOp, MoveBackOp} /\ last'.status # 201 /\ clock' = clock)
            => file' = file]_vars

\* C8: for a valid form (a finite, non-negative price), createPending followed
\* by getPending of the returned id returns a record with the supplied
\* modelName, salonName, date and price and with createdAt = updatedAt.
ValidForm(form) == form.price.k = "num" /\ form.price.n >= 0

C8_CreateThenGet ==
    (last.op = "POST /api/shoots" /\ last.status = 201 /\ ValidForm(last.form[1])) =>
        LET got == getShootById(file, last.body[1].id)
        IN  /\ StatusGetShoot(file, last.body[1].id) = 200
            /\ got = last.body
            /\ SameContent(got[1], last.form[1])
            /\ got[1].createdAt = got[1].updatedAt

\* a valid Shoot has just been created next to an earlier one
C8_Witness ==
    /\ last.op = "POST /api/shoots"
    /\ last.status = 201
    /\ ValidForm(last.form[1])
    /\ Len(Pending) >= 2

\* C9: updatePending and updateEdited on an existing id change only the
\* supplied fields of the targeted record, leave its id, createdAt (and
\* originalShootId) and every other record unchanged, and set
\* updatedAt/editedAt; the claim says to a strictly later timestamp
\* (C9_StrictlyLater), the code to the clock's reading, which is the same
\* timestamp when the update falls in the millisecond of the previous
\* write of the record (C9_Update).
Updated(op) == last'.op = op /\ last'.status = 200 /\ clock' = clock

At(arr, id) == CHOOSE i \in 1..Len(arr) : arr[i].id = id

OthersKept(arr, arr2, idx) ==
    /\ Len(arr2) = Len(arr)
    /\ \A j \in 1..Len(arr) : j # idx => arr2[j] = arr[j]

PendingFrame ==
    LET idx == At(Pending, last'.id)
    IN  /\ OthersKept(Pending, Pending', idx)
        /\ Edited' = Edited
        /\ Pending'[idx].id = Pending[idx].id
        /\ Pending'[idx].createdAt = Pending[idx].createdAt
        /\ SameContent(Pending'[idx], JsonShoot(last'.form[1]))
        /\ last'.body = <<Pending'[idx]>>

EditedFrame ==
    LET idx == At(Edited, last'.id)
    IN  /\ OthersKept(Edited, Edited', idx)
        /\ Pending' = Pending
        /\ Edited'[idx].id = Edited[idx].id
        /\ Edited'[idx].createdAt = Edited[idx].createdAt
        /\ Edited'[idx].originalShootId = Edited[idx].originalShootId
        /\ SameContent(Edited'[idx], JsonShoot(last'.form[1]))
        /\ last'.body = <<Edited'[idx]>>

C9_StrictlyLater ==
    [][/\ Updated("PUT /api/shoots/:id") =>
            /\ PendingFrame
            /\ LET idx == At(Pending, last'.id)
               IN  Pending'[idx].updatedAt > Pending[idx].updatedAt
       /\ Updated("PUT /api/edited-shoots/:id") =>
            /\ EditedFrame
            /\ LET idx == At(Edited, last'.id)
               IN  Edited'[idx].editedAt > Edited[idx].editedAt]_vars

C9_Update ==
    [][/\ Updated("PUT /api/shoots/:id") =>
            /\ PendingFrame
            /\ LET idx == At(Pending, last'.id)
               IN  /\ Pending'[idx].updatedAt = clock
                   /\ Pending'[idx].updatedAt >= Pending[idx].updatedAt
       /\ Updated("PUT /api/edited-shoots/:id") =>
            /\ EditedFrame
            /\ LET idx == At(Edited, last'.id)
               IN  /\ Edited'[idx].editedAt = clock
                   /\ Edited'[idx].editedAt >= Edited[idx].editedAt]_vars

\* an EditedShoot has been updated a millisecond or more after its creation,
\* with a record in Pending beside it
C9_Witness ==
    /\ last.op = "PUT /api/edited-shoots/:id"
    /\ last.status = 200
    /\ last.body[1].editedAt > last.body[1].createdAt
    /\ Len(Pending) >= 1

\* C10: every successful mutation of a record (create, update, moveToEdited,
\* moveBackToPending) sets the record's updatedAt/editedAt to the time of the
\* operation, and the reads (listPending, listEdited, getPending, getEdited)
\* change nothing of the persisted document.
ReadOps == {"GET /api/shoots", "GET /api/shoots/:id", "GET /api/edited-shoots", "getEditedShootById"}

C10_Timestamps ==
    [][clock' = clock =>
        /\ (last'.op \in {"POST /api/shoots", "PUT /api/shoots/:id", MoveBackOp}
                /\ last'.status \in {200, 201}) =>
              /\ getShootById(file', last'.body[1].id) = last'.body
              /\ last'.body[1].updatedAt = clock
        /\ (last'.op \in {MoveToEditedOp, "PUT /api/edited-shoots/:id"}
                /\ last'.status \in {200, 201}) =>
              /\ getEditedShootById(file', last'.body[1].id) = last'.body
              /\ last'.body[1].editedAt = clock
        /\ last'.op \in ReadOps => (file' = file /\ writeLog' = <<>>)]_vars

\* a Shoot has come back to Pending later than it was created
C10_Witness ==
    /\ last.op = MoveBackOp
    /\ last.status = 201
    /\ last.body[1].updatedAt > last.body[1].createdAt

\* C11: deletePending(id) and deleteEdited(id) for an id that is not in the
\* targeted bucket return not-found (false, HTTP 404) without raising an
\* error and leave the persisted document unchanged.
InBucket(arr, id) == \E i \in 1..Len(arr) : arr[i].id = id

C11_DeleteAbsent ==
    [][clock' = clock =>
        /\ (last'.op = "DELETE /api/shoots/:id" /\ ~InBucket(Pending, last'.id)) =>
              (last'.status = 404 /\ file' = file /\ writeLog' = <<>>)
        /\ (last'.op = "DELETE /api/edited-shoots/:id" /\ ~InBucket(Edited, last'.id)) =>
              (last'.status = 404 /\ file' = file /\ writeLog' = <<>>)]_vars

\* DELETE /api/shoots/:id was answered 404 for an id that sits in Edited,
\* with a record in Pending
C11_Witness ==
    /\ last.op = "DELETE /api/shoots/:id"
    /\ last.status = 404
    /\ InBucket(Edited, last.id)
    /\ Len(Pending) >= 1

\* C12: a POST /api/shoots, PUT /api/shoots/:id or PUT /api/edited-shoots/:id
\* whose modelName, salonName, date or price is missing, or whose price is
\* non-numeric, is answered 400 and never reaches the store: no form with a
\* missing field or a non-numeric price is stored, and a request answered
\* 400 writes nothing.
ValidatedOps == {"POST /api/shoots", "PUT /api/shoots/:id", "PUT /api/edited-shoots/:id"}

Complete(form) ==
    /\ ~Falsy(form.modelName)
    /\ ~Falsy(form.salonName)
    /\ ~Falsy(form.date)
    /\ form.price.k = "num"

C12_Validation ==
    /\ (last.op \in ValidatedOps /\ last.form # <<>>) => Complete(last.form[1])
    /\ (last.op \in ValidatedOps /\ last.status = 400) => writeLog = <<>>

\* C13: every record of either bucket, created or updated through the REST
\* API, has a price that is a finite, non-negative number.
FinitePrice(r) == r.price.k = "num" /\ r.price.n >= 0

C13_FinitePrice ==
    /\ \A i \in 1..Len(Pending) : FinitePrice(Pending[i])
    /\ \A i \in 1..Len(Edited) : FinitePrice(Edited[i])

\* C14: for every id-targeted route with a valid body the response is 404
\* exactly when the id is absent from the targeted bucket at the time of the
\* request; otherwise reads, updates and deletes answer 200 and creates and
\* bucket-moves answer 201.
PendingOps == {"GET /api/shoots/:id", "PUT /api/shoots/:id", "DELETE /api/shoots/:id", MoveToEditedOp}
EditedOps == {"PUT /api/edited-shoots/:id", "DELETE /api/edited-shoots/:id", MoveBackOp}
OkStatus(op) == IF op \in {"POST /api/shoots", MoveToEditedOp, MoveBackOp} THEN 201 ELSE 200

C14_StatusCodes ==
    [][(clock' = clock /\ last'.status # 400) =>
        /\ last'.op \in PendingOps =>
              last'.status = IF InBucket(Pending, last'.id) THEN OkStatus(last'.op) ELSE 404
        /\ last'.op \in EditedOps =>
              last'.status = IF InBucket(Edited, last'.id) THEN OkStatus(last'.op) ELSE 404
        /\ last'.op = "POST /api/shoots" => last'.status = 201
        /\ last'.op \in {"GET /api/shoots", "GET /api/edited-shoots"} => last'.status = 200]_vars

\* PUT /api/edited-shoots/:id was answered 404 for an id that sits in Pending
C14_Witness ==
    /\ last.op = "PUT /api/edited-shoots/:id"
    /\ last.status = 404
    /\ InBucket(Pending, last.id)
    /\ Len(Edited) >= 1

\* C15: after a successful deletePending(id) or deleteEdited(id) the record
\* is in neither bucket, every later get, update, delete and move on that id
\* reports not-found, and no later operation makes a record with that id
\* reappear in either bucket.
Deleted == {i \in 1..Len(ledger) : ledger[i].fate = "deleted"}

AnyForm == FormOf(Body(Str("Ava"), Str("Luxe"), Str("2024-01-10"), Num(100)))

C15_DeletedForGood ==
    \A id \in Deleted :
        /\ ~InBucket(Pending, id) /\ ~InBucket(Edited, id)
        /\ StatusGetShoot(file, id) = 404
        /\ getEditedShootById(file, id) = <<>>
        /\ ~updateShoot(file, id, AnyForm, Now).found
        /\ ~updateEditedShoot(file, id, AnyForm, Now).found
        /\ ~deleteShoot(file, id).found
        /\ ~deleteEditedShoot(file, id).found
        /\ ~moveShootToEdited(file, id, randomUUID, Now).found
        /\ ~moveEditedShootBack(file, id, randomUUID, Now).found

\* a record was deleted from Edited and a Shoot has been created since
C15_Witness ==
    /\ \E id \in Deleted : \E a \in Abandoned : ledger[a].bk = ledger[id].bk
    /\ last.op = "POST /api/shoots"
    /\ last.status = 201
    /\ Len(Pending) >= 1

\* C16: when data.json is missing or cannot be read or parsed, every read
\* behaves as on an empty store: listPending and listEdited return empty
\* sequences, getPending and getEdited report not-found.
C16_UnreadableIsEmpty ==
    file.state # "ok" =>
        /\ getShoots(file) = <<>>
        /\ getEditedShoots(file) = <<>>
        /\ \A id \in RequestIds :
              /\ StatusGetShoot(file, id) = 404
              /\ getEditedShootById(file, id) = <<>>
        /\ last.op \in ReadOps => last.body = <<>>
        /\ last.op \in {"GET /api/shoots", "GET /api/edited-shoots"} => last.status = 200
        /\ last.op = "GET /api/shoots/:id" => last.status = 404

\* GET /api/shoots answered an empty list from a data.json that a failed
\* write had left unparseable
C16_Witness ==
    /\ file.state = "corrupt"
    /\ last.op = "GET /api/shoots"
    /\ last.status = 200
    /\ last.body = <<>>
    /\ uuids >= 2

\* C20: the createdAt of a logical booking never changes: after any sequence
\* of updatePending, moveToEdited, updateEdited and moveBackToPending the
\* record that stands for the booking carries the createdAt createPending
\* gave it.
C20_CreatedAtKept ==
    /\ \A i \in 1..Len(Pending) : Pending[i].createdAt = ledger[Pending[i].id].born
    /\ \A i \in 1..Len(Edited) : Edited[i].createdAt = ledger[Edited[i].id].born

\* a booking has been to Edited and back and was updated later than created
C20_Witness ==
    \E i \in 1..Len(Pending) :
        /\ Pending[i].updatedAt > Pending[i].createdAt
        /\ Cardinality({a \in Abandoned : ledger[a].bk = Booking(Pending[i].id)}) = 2
        /\ last.op = "PUT /api/shoots/:id"
        /\ last.status = 200

\* -------------------------------------------------------------- C17, C18
Done == {p \in Writers : wpc[p] = "done"}
Composed(p) == JsonShoot(wmem[p].r.ret[1])
\* the writer whose writeData came last
LastWriter == CHOOSE p \in Done : last.body = <<Composed(p)>>
\* the orders in which the finished calls can be lined up
Orders == {o \in [1..Cardinality(Done) -> Done] : \A p \in Done : \E i \in DOMAIN o : o[i] = p}

\* C17: with two writers that read the whole document, compose and write
\* the whole document as separate steps without mutual exclusion, the
\* persisted document is the one the last writer composed: a finished
\* writer's record is in it exactly when that writer wrote last or the last
\* writer had read the file after that write. The write of a writer whose
\* record the last writer had not read is lost, although both answered 201.
C17_LastWriterWins ==
    (Done # {} /\ last.op = "POST /api/shoots") =>
        /\ last.status = 201
        /\ file.doc = JsonData(wmem[LastWriter].r.data)
        /\ \A p \in Done :
              InBucket(Pending, Composed(p).id) <=>
                  \/ p = LastWriter
                  \/ InBucket(readData(wmem[LastWriter].base).shoots, Composed(p).id)

\* both writers answered 201 and the file holds the record of only one
C17_Witness ==
    /\ Done = Writers
    /\ last.status = 201
    /\ Len(Pending) = 1
    /\ \E p \in Writers : ~InBucket(Pending, Composed(p).id)

\* C18: within one process a store operation runs from its read to its
\* write without another handler in between, so a handler that has read
\* still sees the file it read, and the persisted document is the result
\* of the finished operations one after another in some order, every
\* one of their records present.
C18_RunToCompletion ==
    /\ \A p \in Writers : wpc[p] = "held" => wmem[p].base = file
    /\ \E o \in Orders :
          /\ Pending = [i \in 1..Cardinality(Done) |-> Composed(o[i])]
          /\ Edited = <<>>
    /\ \A p \in Done : InBucket(Pending, Composed(p).id)

\* two requests handled by the one process, both records persisted
C18_Witness ==
    /\ Done = Writers
    /\ Len(Pending) = 2
    /\ \A p \in Writers : InBucket(Pending, Composed(p).id)

\* ------------------------------------------------------------------- C19
\* the (year, month) the date of the i-th input shoot falls in
MonthOf(i) == [year |-> getFullYear(statsIn[i].date), monthNumber |-> getMonth(statsIn[i].date)]
InMonth(k) == {i \in 1..Len(statsIn) : MonthOf(i) = k}
RECURSIVE SumPrices(_)
SumPrices(I) ==
    IF I = {} THEN 0
    ELSE LET i == CHOOSE j \in I : TRUE IN statsIn[i].price.n + SumPrices(I \ {i})
Later(a, b) == a.year > b.year \/ (a.year = b.year /\ a.monthNumber > b.monthNumber)

C21_StampOrder ==
    /\ \A i \in 1..Len(Pending) : Pending[i].updatedAt >= Pending[i].createdAt
    /\ \A i \in 1..Len(Edited) : Edited[i].editedAt >= Edited[i].createdAt
    /\ (last.op = MoveToEditedOp /\ last.status = 201) =>
          /\ last.body[1].editedAt >= last.body[1].createdAt
          /\ last.body[1].id # last.id
          /\ last.body[1].originalShootId = last.id

\* a Shoot created at one time was moved to Edited at a later one, next to
\* a Shoot that came back from Edited later than it was created
C21_Witness ==
    /\ last.op = MoveToEditedOp
    /\ last.status = 201
    /\ last.body[1].editedAt > last.body[1].createdAt
    /\ \E i \in 1..Len(Pending) : Pending[i].updatedAt > Pending[i].createdAt

\* ------------------------------------------------------------------- C22
Ids(arr) == [i \in 1..Len(arr) |-> arr[i].id]
Did(op) == last'.op = op /\ last'.status = OkStatus(op) /\ clock' = clock

C23_Provenance ==
    [][clock' = clock =>
        /\ Did(MoveToEditedOp) =>
              /\ InBucket(Pending, last'.id)
              /\ last'.body[1].originalShootId = last'.id
              /\ Edited'[Len(Edited')].originalShootId = last'.id
        /\ Did("PUT /api/edited-shoots/:id") =>
              /\ Edited'[At(Edited, last'.id)].originalShootId =
                     Edited[At(Edited, last'.id)].originalShootId
              /\ last'.body[1].originalShootId = Edited[At(Edited, last'.id)].originalShootId
        /\ Did(MoveBackOp) =>
              /\ last'.body[1].id # Edited[At(Edited, last'.id)].originalShootId
              /\ ~InBucket(Pending', Edited[At(Edited, last'.id)].originalShootId)
        /\ \A i \in 1..Len(Edited') :
              /\ ~InBucket(Pending', Edited'[i].originalShootId)
              /\ ledger'[Edited'[i].originalShootId].fate = "moved"
              /\ ledger'[Edited'[i].originalShootId].bk = ledger'[Edited'[i].id].bk
        /\ (last'.op \in EditedOps /\ last'.status # 400 /\ InBucket(Edited, last'.id)) =>
              last'.status = OkStatus(last'.op)]_vars

\* an EditedShoot was updated while Pending held another Shoot and no
\* record with its originalShootId
C23_Witness ==
    /\ last.op = "PUT /api/edited-shoots/:id"
    /\ last.status = 200
    /\ Len(Pending) >= 1
    /\ ~InBucket(Pending, last.body[1].originalShootId)
    /\ last.body[1].originalShootId # last.id

\* ------------------------------------------------------------------- C24
OnlyPending(id) == InBucket(Pending, id) /\ ~InBucket(Edited, id)
OnlyEdited(id) == InBucket(Edited, id) /\ ~InBucket(Pending, id)
NothingDone == last'.status = 404 /\ file' = file /\ writeLog' = <<>>

\* C24: operations are bucket-scoped. updatePending and deletePending
\* leave the Edited bucket unchanged, updateEdited and deleteEdited leave
\* the Pending bucket unchanged. An id that is only in Pending is not
\* found by updateEdited, deleteEdited and moveBackToPending; an id that
\* is only in Edited is not found by getPending, updatePending,
\* deletePending and moveToEdited.
C24_BucketScoped ==
    [][clock' = clock =>
        /\ last'.op \in {"PUT /api/shoots/:id", "DELETE /api/shoots/:id"} => Edited' = Edited
        /\ last'.op \in {"PUT /api/edited-shoots/:id", "DELETE /api/edited-shoots/:id"} =>
              Pending' = Pending
        /\ (last'.op \in EditedOps /\ last'.status # 400 /\ OnlyPending(last'.id)) =>
              NothingDone
        /\ (last'.op \in PendingOps /\ last'.status # 400 /\ OnlyEdited(last'.id)) =>
              NothingDone
        /\ \A id \in RequestIds :
              /\ OnlyPending(id) =>
                    /\ ~updateEditedShoot(file, id, AnyForm, Now).found
                    /\ ~deleteEditedShoot(file, id).found
                    /\ ~moveEditedShootBack(file, id, randomUUID, Now).found
                    /\ getEditedShootById(file, id) = <<>>
              /\ OnlyEdited(id) =>
                    /\ getShootById(file, id) = <<>>
                    /\ ~updateShoot(file, id, AnyForm, Now).found
                    /\ ~deleteShoot(file, id).found
                    /\ ~moveShootToEdited(file, id, randomUUID, Now).found]_vars

\* DELETE /api/edited-shoots/:id was answered 404 for an id that is only in
\* Pending, with a record in each bucket
C24_Witness ==
    /\ last.op = "DELETE /api/edited-shoots/:id"
    /\ last.status = 404
    /\ OnlyPending(last.id)
    /\ Len(Edited) >= 1

\* ------------------------------------------------------------------- C25
Total == Len(Pending) + Len(Edited)

\* C25: |Pending| + |Edited| grows by exactly one on a successful
\* createPending, shrinks by exactly one on a successful deletePending or
\* deleteEdited and stays the same on every other operation (updates,
\* moves, reads, and whatever answers not-found or bad-request); a move
\* changes the two bucket sizes by -1 and +1.
C25_Count ==
    [][clock' = clock =>
        /\ Total' = Total +
              (IF Did("POST /api/shoots") THEN 1
               ELSE IF Did("DELETE /api/shoots/:id") \/ Did("DELETE /api/edited-shoots/:id")
               THEN -1 ELSE 0)
        /\ Did("DELETE /api/shoots/:id") =>
              Len(Pending') = Len(Pending) - 1 /\ Len(Edited') = Len(Edited)
        /\ Did("DELETE /api/edited-shoots/:id") =>
              Len(Edited') = Len(Edited) - 1 /\ Len(Pending') = Len(Pending)
        /\ Did(MoveToEditedOp) =>
              Len(Pending') = Len(Pending) - 1 /\ Len(Edited') = Len(Edited) + 1
        /\ Did(MoveBackOp) =>
              Len(Edited') = Len(Edited) - 1 /\ Len(Pending') = Len(Pending) + 1
        /\ last'.status \in {400, 404} => (Len(Pending') = Len(Pending) /\ Len(Edited') = Len(Edited))]_vars

\* the one Shoot has come back from Edited: one record in Pending again,
\* none in Edited, after three ids were drawn for it
C25_Witness ==
    /\ last.op = MoveBackOp
    /\ last.status = 201
    /\ Len(Pending) = 1
    /\ Len(Edited) = 0
    /\ uuids = 3

\* ------------------------------------------------------------------- C26
Unreadable == file.state = "corrupt"

\* C26: when data.json exists but cannot be read or parsed, createPending
\* still succeeds by taking the store as empty: its single write replaces
\* the document with one whose Pending bucket holds only the new Shoot and
\* whose Edited bucket is empty. Update, delete and move operations in
\* that situation answer not-found and write nothing.
C26_CreateOverUnreadable ==
    [][(Unreadable /\ clock' = clock) =>
        /\ \A body \in Bodies : ~Invalid(body) =>
              LET r == createShoot(file, FormOf(body), randomUUID, Now)
              IN  /\ r.found
                  /\ r.writes = <<[shoots |-> r.ret, editedShoots |-> <<>>]>>
        /\ (last'.op = "POST /api/shoots" /\ last'.status = 201) =>
              /\ Len(writeLog') = 1
              /\ Len(last'.body) = 1
              /\ file'.state = "ok"
              /\ Pending' = last'.body
              /\ Edited' = <<>>
        /\ (last'.op \in (MutatingOps \ {"POST /api/shoots"}) /\ last'.status # 400) =>
              NothingDone]_vars

\* the third Shoot was created over a data.json that a failed write had
\* left unparseable: it is alone in Pending, the first Shoot is gone
C26_Witness ==
    /\ last.op = "POST /api/shoots"
    /\ last.status = 201
    /\ Ids(Pending) = <<3>>
    /\ Edited = <<>>
    /\ ledger[1].fate = "live"
    /\ ledger[2].fate = "void"

\* ------------------------------------------------------------------- C27
RECURSIVE SumField(_, _)
SumField(stats, I) ==
    IF I = {} THEN [shootCount |-> 0, totalEarnings |-> 0]
    ELSE LET i == CHOOSE j \in I : TRUE
             rest == SumField(stats, I \ {i})
         IN  [shootCount |-> stats[i].shootCount + rest.shootCount,
              totalEarnings |-> stats[i].totalEarnings + rest.totalEarnings]
RECURSIVE PriceSum(_, _)
PriceSum(arr, I) ==
    IF I = {} THEN 0
    ELSE LET i == CHOOSE j \in I : TRUE IN arr[i].price.n + PriceSum(arr, I \ {i})
Fresh(key) == ~cache[key].stale

\* C27: the statistics screen aggregates the Pending bucket only, the
\* answer to GET /api/shoots. Once that list is fetched again after a
\* moveToEdited the Shoot no longer counts in the total shoots, the total
\* earnings or a monthly entry, and after moveBackToPending it counts
\* again: the shootCounts of the monthly entries add up to the number of
\* Pending shoots and their totalEarnings to the sum of the Pending prices.
C27_StatsOverPending ==
    /\ statsOut.done =>
          LET sums == SumField(statsOut.stats, 1..Len(statsOut.stats))
          IN  /\ sums.shootCount = Len(statsIn)
              /\ statsOut.totalShoots = Len(statsIn)
              /\ sums.totalEarnings = PriceSum(statsIn, 1..Len(statsIn))
              /\ statsOut.totalEarnings = PriceSum(statsIn, 1..Len(statsIn))
    /\ Fresh("/api/shoots") =>
          /\ statsIn = Pending
          /\ \A i \in 1..Len(Edited) : ~InBucket(statsIn, Edited[i].id)
    /\ (Fresh("/api/shoots") /\ statsOut.done) =>
          /\ statsOut.totalShoots = Len(Pending)
          /\ statsOut.totalEarnings = PriceSum(Pending, 1..Len(Pending))

\* of two Shoots one was moved to Edited: the refreshed stats screen counts
\* one shoot and the earnings of the one still in Pending
C27_Witness ==
    /\ statsOut.done
    /\ Fresh("/api/shoots")
    /\ Len(Pending) = 1
    /\ Len(Edited) = 1
    /\ Edited[1].price # Pending[1].price
    /\ statsOut.totalShoots = 1
    /\ statsOut.totalEarnings = Pending[1].price.n
    /\ Len(statsOut.stats) = 1

\* ------------------------------------------------------------------- C28
Bucket(key) == IF key = "/api/shoots" THEN Pending ELSE Edited
Mutated == last'.op \in MutatingOps /\ statsOut' = statsOut
Invalidated(keys) == cache' = invalidateQueries(cache, keys)

====
